---- MODULE Spec2Model ----
\* Model of the guarded NL->SQL core of sql-ai-challenge: the direct
\* translator (Nl2SqlService.translateDirect), the executor's guard
\* (DbService.execSelect), the ReAct loop (ReactAgentService.processQuery)
\* with its action handlers, the orchestrator (Nl2SqlService.process) and
\* the controller (QueryController.handle, handleDirectQuery,
\* handleReactQuery).
\*
\* Texts are sequences of lexical tokens.  A token is a keyword, a piece
\* of punctuation, a section header of the ReAct grammar, the fence
\* marker (three backquotes) or one whitespace character (WS).  The regular expressions
\* of the source are evaluated token by token.
EXTENDS Integers, Sequences, FiniteSets, TLC

\* ------------------------------------------------------------------ bounds
\* Largest numeric REACT_MAX_ITERATIONS value of the modelled configurations.
MaxBudget == 2

\* Longest error text, in tokens, handed to the error analyzer on its own.
MaxErrLen == 2

\* Longest schema-inspector command, in tokens, handed to the handler on
\* its own.
MaxCmdLen == 3

\* ------------------------------------------------------------------ tokens
WS    == " "
\* The fenced-code marker (three backquotes), one token.
Fence == "[fence]"
HThought     == "Thought:"
HAction      == "Action:"
HActionInput == "Action Input:"
HFinalAnswer == "Final Answer:"

\* String.prototype.toLowerCase on one token.
Lower(tok) ==
  CASE tok = "SELECT"    -> "select"
    [] tok = "SQL"       -> "sql"
    [] tok = "SQL-Query" -> "sql-query"
    [] tok = "Tables"    -> "tables"
    [] tok = "Contacts"  -> "contacts"
    [] tok = "Relation"  -> "relation"
    [] tok = "Syntax Error" -> "syntax error"
    [] tok = "Guard:" -> "guard:"
    [] tok = "Only SELECT statements are allowed" ->
         "only select statements are allowed"
    [] tok = "Only SELECT queries are allowed" ->
         "only select queries are allowed"
    [] OTHER             -> tok

\* String.prototype.toLowerCase on a text.
ToLowerCase(s) == [i \in 1..Len(s) |-> Lower(s[i])]

RECURSIVE TrimStart(_)
\* Removal of leading whitespace (the ^\s* prefix of the patterns).
TrimStart(s) ==
  IF s # <<>> /\ Head(s) = WS THEN TrimStart(Tail(s)) ELSE s

RECURSIVE TrimEnd(_)
TrimEnd(s) ==
  IF s # <<>> /\ s[Len(s)] = WS THEN TrimEnd(SubSeq(s, 1, Len(s) - 1)) ELSE s

\* String.prototype.trim
Trim(s) == TrimEnd(TrimStart(s))

\* /^select\s/i.test(s)
TestSelect(s) ==
  /\ Len(s) >= 2
  /\ Lower(s[1]) = "select"
  /\ s[2] = WS

\* /^\s*select\s/i.test(s)
TestWsSelect(s) == TestSelect(TrimStart(s))

\* /^\s*[fence]sql/i.test(s)
TestFenceSql(s) ==
  LET t == TrimStart(s) IN
    /\ Len(t) >= 2
    /\ t[1] = Fence
    /\ Lower(t[2]) = "sql"

\* s.replace(/^\s*[fence]sql/i, empty)
StripFenceSql(s) ==
  IF TestFenceSql(s) THEN Tail(Tail(TrimStart(s))) ELSE s

\* s.replace(/^\s*[fence]/, empty)
StripFence(s) ==
  LET t == TrimStart(s) IN
    IF t # <<>> /\ t[1] = Fence THEN Tail(t) ELSE s

\* s.replace(/[fence]$/, empty)
StripFenceEnd(s) ==
  IF s # <<>> /\ s[Len(s)] = Fence THEN SubSeq(s, 1, Len(s) - 1) ELSE s

\* --------------------------------------------------------- error messages
GuardAbortMsg  == "Guard: Non-SELECT SQL generated. Aborting."
ExecGuardMsg   == "Guard: Only SELECT statements are allowed."
HandlerGuardMsg == "Only SELECT queries are allowed"
ModelErrorMsg  == "ModelError"
DbErrorMsg     == "relation does not exist"

\* ------------------------------------------------------ direct translator
\* The guard of translateDirect: the statement after the optional [fence]sql
\* strip, or the rejection.  resp is the model's response content.
GuardDirect(resp, allowWrites) ==
  LET sql0 == Trim(resp)
      sql1 == IF ~allowWrites /\ ~TestSelect(sql0) /\ TestFenceSql(sql0)
              THEN Trim(StripFenceEnd(StripFenceSql(sql0)))
              ELSE sql0
  IN  IF ~allowWrites /\ ~TestSelect(sql0) /\ ~TestSelect(sql1)
      THEN [ok |-> FALSE, sql |-> <<>>, error |-> GuardAbortMsg]
      ELSE [ok |-> TRUE, sql |-> sql1, error |-> ""]

\* TranslateDirect without its guard: the normalisation only.
TranslateDirectNoGuard(resp, allowWrites) ==
  [ok |-> TRUE,
   sql |-> Trim(StripFenceEnd(StripFence(StripFenceSql(Trim(resp))))),
   error |-> ""]

\* TranslateDirect that answers a rejected response with the statement of
\* rule 2 of the prompt instead of throwing.
TranslateDirectSafeFallback(resp, allowWrites) ==
  LET g == GuardDirect(resp, allowWrites) IN
    [ok |-> TRUE,
     sql |-> IF g.ok
             THEN Trim(StripFenceEnd(StripFence(StripFenceSql(g.sql))))
             ELSE <<"SELECT", WS, "'No data available'", WS, "as", WS,
                    "message", WS, "LIMIT", WS, "1">>,
     error |-> ""]

\* translateDirect after the model call returned resp: guard, then the
\* normalisation of code block wrappers.
TranslateDirect(resp, allowWrites) ==
  LET g == GuardDirect(resp, allowWrites) IN
    IF ~g.ok THEN g
    ELSE [ok |-> TRUE,
          sql |-> Trim(StripFenceEnd(StripFence(StripFenceSql(g.sql)))),
          error |-> ""]

\* --------------------------------------------------------------- executor
\* ExecGuard without its SELECT test.
ExecGuardOff(sql, allowWrites) == TRUE

\* The guard of DbService.execSelect: TRUE when the statement goes on to
\* the pool.
ExecGuard(sql, allowWrites) == allowWrites \/ TestWsSelect(sql)


\* ------------------------------------------------------------ ReAct parser
RECURSIVE IndexFrom(_, _, _)
\* Position of the first token of s at or after position from that is one
\* of the headers hs, 0 when there is none (leftmost regex match).
IndexFrom(s, hs, from) ==
  IF from > Len(s) THEN 0
  ELSE IF s[from] \in hs THEN from
  ELSE IndexFrom(s, hs, from + 1)

\* responseText.match(/<header>\s*(.*?)(?=<stops>|$)/s): the lazy capture
\* after the first occurrence of header, up to the first stop header or the
\* end of the text.
Match(s, header, stops) ==
  LET i == IndexFrom(s, {header}, 1)
      j == IF i = 0 THEN 0 ELSE IndexFrom(s, stops, i + 1)
      e == IF j = 0 THEN Len(s) ELSE j - 1
  IN  IF i = 0 THEN [found |-> FALSE, text |-> <<>>]
      ELSE [found |-> TRUE, text |-> TrimStart(SubSeq(s, i + 1, e))]

thoughtMatch(s)     == Match(s, HThought, {HAction, HFinalAnswer})
actionMatch(s)      == Match(s, HAction, {HActionInput})
actionInputMatch(s) == Match(s, HActionInput, {})
finalAnswerMatch(s) == Match(s, HFinalAnswer, {})

\* TurnKind with the action test ahead of the Final Answer test.
TurnKindActionFirst(s) ==
  IF actionMatch(s).found /\ actionInputMatch(s).found THEN "action"
  ELSE IF finalAnswerMatch(s).found THEN "final"
  ELSE "unparsed"

\* TurnKind that dispatches an Action that has no Action Input.
TurnKindActionAlone(s) ==
  IF finalAnswerMatch(s).found THEN "final"
  ELSE IF actionMatch(s).found THEN "action"
  ELSE "unparsed"

\* What the loop body does with a parsed response: "final" (break with a
\* Final Answer), "action" (dispatch) or "unparsed" (diagnostic and break).
TurnKind(s) ==
  IF finalAnswerMatch(s).found THEN "final"
  ELSE IF actionMatch(s).found /\ actionInputMatch(s).found THEN "action"
  ELSE "unparsed"

\* The entry pushed when no action can be parsed.
Diagnostic == <<"Unable to parse action from response">>

\* UnparsedGoto with continue in place of break.
UnparsedContinue == "loop"

\* Where the loop goes after the diagnostic: the break leaves the loop for
\* the return statement.
UnparsedGoto == "post"

\* -------------------------------------------------------- iteration budget
NaN == [num |-> FALSE, n |-> 0]
Num(k) == [num |-> TRUE, n |-> k]

Digits == <<"0", "1", "2", "3", "4", "5", "6", "7", "8", "9">>
IsDigit(c) == \E i \in 1..10 : Digits[i] = c
DigitVal(c) == (CHOOSE i \in 1..10 : Digits[i] = c) - 1

RECURSIVE DigitsPrefix(_, _)
\* Value of the longest prefix of decimal digits of s, continuing acc.
DigitsPrefix(s, acc) ==
  IF s # <<>> /\ IsDigit(Head(s))
  THEN DigitsPrefix(Tail(s), 10 * acc + DigitVal(Head(s)))
  ELSE acc

\* parseInt(text): optional sign, then the longest prefix of digits; NaN
\* when there is no digit.
ParseInt(text) ==
  LET neg  == text # <<>> /\ Head(text) = "-"
      body == IF neg THEN Tail(text) ELSE text
  IN  IF body = <<>> \/ ~IsDigit(Head(body)) THEN NaN
      ELSE Num(IF neg THEN 0 - DigitsPrefix(body, 0) ELSE DigitsPrefix(body, 0))

\* The program's default budget, used when the variable is unset or empty.
DefaultMaxIterations == <<"5">>

\* parseInt(process.env.REACT_MAX_ITERATIONS || '5'); env is the variable's
\* text, empty when unset.
ParseBudget(env) == ParseInt(IF env = <<>> THEN DefaultMaxIterations ELSE env)

\* REACT_MAX_ITERATIONS settings of the modelled configurations: the
\* numerals 0..MaxBudget, a negative number and a text that is no number.
BudgetEnvs ==
  {<<Digits[k + 1]>> : k \in 0..MaxBudget} \cup {<<"-", "1">>, <<"many">>}

\* LoopCond with <= in place of <.
LoopCondLe(it, maxIt, fa) == maxIt.num /\ it <= maxIt.n /\ fa = <<>>

\* LoopCond that starts counting at 1: one pass more than the budget.
LoopCondFromOne(it, maxIt, fa) == maxIt.num /\ it - 1 < maxIt.n /\ fa = <<>>

\* iteration < maxIterations && !finalAnswer; a comparison with NaN is false.
LoopCond(it, maxIt, fa) == maxIt.num /\ it < maxIt.n /\ fa = <<>>

\* ---------------------------------------------------------------- inputs
Th == <<HThought, WS, "t", WS>>
SelectStmt == <<"SELECT", WS, "*">>
DeleteStmt == <<"DELETE", WS, "*">>

\* The statement the prompt tells the model to answer a write request with.
SafeStmt == <<"SELECT", WS, "'No data available'", WS, "as", WS, "message",
              WS, "LIMIT", WS, "1">>

\* Responses of the model to the direct translator.
DirectResponses ==
  { SelectStmt,
    SafeStmt,
    <<WS, "select", WS, "*", WS>>,
    <<Fence, "sql", WS, "SELECT", WS, "*", WS, Fence>>,
    <<Fence, WS, "SELECT", WS, "*", WS, Fence>>,
    <<"SELECT", "*">>,
    <<"select", WS, Fence>>,
    DeleteStmt,
    <<Fence, "SQL", WS, "DELETE", WS, "*", WS, Fence>>,
    <<Fence, WS, "DELETE", WS, "*", WS, Fence>>,
    <<>> }

Act(name, input) == Th \o <<HAction, WS, name, WS, HActionInput, WS>> \o input

\* Responses of the model inside the ReAct loop.
AgentResponses ==
  { Act("sql-query", SelectStmt),
    Act("SQL-Query", DeleteStmt),
    Act("schema-inspector", <<"Tables">>),
    Act("schema-inspector", <<"describe", WS, "contacts">>),
    Act("schema-inspector", <<"sample", WS, "Contacts">>),
    Act("schema-inspector", <<"drop", WS, "contacts">>),
    Act("error-analyzer", <<"relation", WS, "does not exist">>),
    Act("web-search", <<"x">>),
    Th \o <<HFinalAnswer, WS, "done">>,
    Act("sql-query", DeleteStmt) \o <<WS, HFinalAnswer, WS, "done">>,
    <<HFinalAnswer, WS, HAction, WS, "sql-query", WS, HActionInput, WS,
      "SELECT", WS, "*">>,
    Th,
    Th \o <<HAction, WS, "sql-query">>,
    <<HActionInput, WS, "x">>,
    <<"hello">>,
    <<>> }

\* Outcomes of client.query: rows, or a database error.
DbOutcomes ==
  { [ok |-> TRUE,  rows |-> <<>>],
    [ok |-> TRUE,  rows |-> <<"row">>],
    [ok |-> FALSE, rows |-> <<>>] }


\* --------------------------------------------------------------- executor
\* DbService.execSelect(sql) when client.query has outcome o: the rows or
\* the error thrown, and ran, the statements handed to the database.
ExecSelect(stmt, allowWrites, o) ==
  IF ~ExecGuard(stmt, allowWrites)
  THEN [threw |-> TRUE, error |-> ExecGuardMsg, rows |-> <<>>, ran |-> <<>>]
  ELSE IF o.ok
  THEN [threw |-> FALSE, error |-> "", rows |-> o.rows, ran |-> <<stmt>>]
  ELSE [threw |-> TRUE, error |-> DbErrorMsg, rows |-> <<>>, ran |-> <<stmt>>]

\* --------------------------------------------------------- action handlers
\* An observation is the JSON object a handler serialises; absent fields
\* hold the values below (hasSuccess, hasData say whether success and data
\* are present).
NoObs ==
  [shape |-> "", hasSuccess |-> FALSE, success |-> FALSE, hasData |-> FALSE,
   data |-> <<>>, error |-> "", errorType |-> "", canRetry |-> FALSE,
   suggestions |-> <<>>, tables |-> <<>>]

ErrorObs(shape, msg) == [NoObs EXCEPT !.shape = shape, !.error = msg]

\* An observation that is a plain text, not a serialised object.
TextObs(text) == [NoObs EXCEPT !.shape = "text", !.error = text]

\* ReactAgentService.executeSqlQuery
executeSqlQuery(query, allowWrites, o) ==
  IF ~TestWsSelect(Trim(query))
  THEN [obs |-> ErrorObs("sql-rejected", HandlerGuardMsg), ran |-> <<>>, threw |-> FALSE]
  ELSE LET r == ExecSelect(query, allowWrites, o) IN
    IF r.threw
    THEN [obs |-> [ErrorObs("sql-failed", r.error) EXCEPT !.hasSuccess = TRUE],
          ran |-> r.ran, threw |-> FALSE]
    ELSE [obs |-> [NoObs EXCEPT !.shape = "sql-rows", !.hasSuccess = TRUE,
                                !.success = TRUE, !.hasData = TRUE,
                                !.data = r.rows],
          ran |-> r.ran, threw |-> FALSE]

TablesQuery   == <<WS, "SELECT", WS, "table_name", WS, "FROM", WS, "tables">>
DescribeQuery == <<WS, "SELECT", WS, "column_name", WS, "FROM", WS, "columns",
                   WS, "WHERE", WS, "table_name", WS, "=", WS, "$1">>
CheckQuery    == <<WS, "SELECT", WS, "table_name", WS, "FROM", WS, "tables",
                   WS, "WHERE", WS, "table_name", WS, "=", WS, "$1">>
SampleQuery(tableName) ==
  <<"SELECT", WS, "*", WS, "FROM", WS>> \o tableName \o <<WS, "LIMIT", WS, "3">>

\* The relations of schema public after the initialisation script, in the
\* order of table_name.
Catalog ==
  << [table_name |-> "cases", table_type |-> "BASE TABLE"],
     [table_name |-> "contacts", table_type |-> "BASE TABLE"],
     [table_name |-> "recent_activity", table_type |-> "VIEW"] >>

\* The rows of TablesQuery: its WHERE clause tests table_schema only, so
\* every relation of the catalog is a row.
TablesRows == Catalog

\* command.startsWith(prefix) that compares the first token only.
StartsWithFirstToken(s, prefix) == s # <<>> /\ s[1] = prefix[1]

\* command.startsWith(prefix)
StartsWith(s, prefix) ==
  Len(s) >= Len(prefix) /\ SubSeq(s, 1, Len(prefix)) = prefix

\* command.replace(prefix, empty).trim() for a command that starts with prefix
AfterPrefix(s, prefix) == Trim(SubSeq(s, Len(prefix) + 1, Len(s)))

\* TableExists that takes every lookup for a hit.
TableExistsAlways(rows) == TRUE

\* tableExists.length === 0 is false: the catalog lookup found the table.
TableExists(rows) == rows # <<>>

\* ReactAgentService.inspectSchema; o1 and o2 are the outcomes of its first
\* and second database query; params holds the bound parameters of each
\* statement of ran.
inspectSchema(input, allowWrites, o1, o2) ==
  LET command == ToLowerCase(Trim(input))
      ok(shape) == [NoObs EXCEPT !.shape = shape, !.hasSuccess = TRUE,
                                 !.success = TRUE]
      params(r, ps) == IF r.ran = <<>> THEN <<>> ELSE <<ps>>
  IN
  IF command = <<"tables">> THEN
    LET r == ExecSelect(TablesQuery, allowWrites, o1) IN
      [obs |-> IF r.threw THEN ErrorObs("inspect-failed", r.error)
               ELSE [ok("tables") EXCEPT !.tables = TablesRows],
       ran |-> r.ran, params |-> params(r, <<>>), threw |-> FALSE]
  ELSE IF StartsWith(command, <<"describe", WS>>) THEN
    LET tableName == AfterPrefix(command, <<"describe", WS>>)
        r == ExecSelect(DescribeQuery, allowWrites, o1)
    IN
      [obs |-> IF r.threw THEN ErrorObs("inspect-failed", r.error)
               ELSE IF r.rows = <<>> THEN ErrorObs("not-found", "Table not found")
               ELSE ok("columns"),
       ran |-> r.ran, params |-> params(r, <<tableName>>), threw |-> FALSE]
  ELSE IF StartsWith(command, <<"sample", WS>>) THEN
    LET tableName == AfterPrefix(command, <<"sample", WS>>)
        r1 == ExecSelect(CheckQuery, allowWrites, o1)
        r2 == ExecSelect(SampleQuery(tableName), allowWrites, o2)
    IN
      IF r1.threw
      THEN [obs |-> ErrorObs("inspect-failed", r1.error), ran |-> r1.ran,
            params |-> params(r1, <<tableName>>), threw |-> FALSE]
      ELSE IF ~TableExists(r1.rows)
      THEN [obs |-> ErrorObs("not-found", "Table not found"), ran |-> r1.ran,
            params |-> params(r1, <<tableName>>), threw |-> FALSE]
      ELSE [obs |-> IF r2.threw THEN ErrorObs("inspect-failed", r2.error)
                    ELSE ok("sample"),
            ran |-> r1.ran \o r2.ran,
            params |-> params(r1, <<tableName>>) \o params(r2, <<>>),
            threw |-> FALSE]
  ELSE
    [obs |-> ErrorObs("invalid-command",
                      "Invalid command. Use: tables, describe <table>, or sample <table>"),
     ran |-> <<>>, params |-> <<>>, threw |-> FALSE]

\* errorLower.includes(phrase)
Includes(s, phrase) == \E i \in 1..Len(s) : s[i] = phrase

\* The input parses as a JSON object with an error member: the tokens
\* between the opening and the closing one are the member's value, a number
\* when they are one digit and a string otherwise.
IsJsonError(input) ==
  Len(input) >= 3 /\ input[1] = "{error:" /\ input[Len(input)] = "}"

JsonErrorIsNumber(input) == Len(input) = 3 /\ IsDigit(input[2])

\* if (parsed.error): the member is a non-empty string or a non-zero number.
JsonErrorTruthy(input) ==
  IsJsonError(input) /\ (JsonErrorIsNumber(input) => input[2] # "0")

\* errorMessage after the inner try: JSON.parse(errorInput).error when the
\* input is a JSON object with a truthy error member, the input otherwise.
ErrorMessageOf(input) ==
  IF JsonErrorTruthy(input) THEN SubSeq(input, 2, Len(input) - 1) ELSE input

\* errorMessage is a string, so that errorMessage.toLowerCase() exists.
ErrorMessageIsString(input) ==
  ~(JsonErrorTruthy(input) /\ JsonErrorIsNumber(input))


\* ReactAgentService.analyzeError
analyzeError(input) ==
  LET errorLower == ToLowerCase(ErrorMessageOf(input))
      errorType ==
        IF Includes(errorLower, "syntax error") THEN "SYNTAX_ERROR"
        ELSE IF Includes(errorLower, "relation") /\ Includes(errorLower, "does not exist")
        THEN "RELATION_NOT_FOUND"
        ELSE IF Includes(errorLower, "column") /\ Includes(errorLower, "does not exist")
        THEN "COLUMN_NOT_FOUND"
        ELSE IF Includes(errorLower, "only select statements are allowed")
        THEN "SAFETY_GUARD"
        ELSE "UNKNOWN_ERROR"
      suggestion ==
        CASE errorType = "SYNTAX_ERROR" ->
               "Check SQL syntax for missing commas, parentheses, or quotes"
          [] errorType = "RELATION_NOT_FOUND" ->
               "Check table name spelling - available tables: contacts, cases, recent_activity"
          [] errorType = "COLUMN_NOT_FOUND" -> "Verify column name spelling and case"
          [] errorType = "SAFETY_GUARD" -> "Only SELECT queries are allowed for security"
          [] OTHER -> "Review the query for common SQL errors"
  IN IF ~ErrorMessageIsString(input)
     THEN [obs |-> ErrorObs("analysis-failed", "Failed to analyze error"),
           ran |-> <<>>, threw |-> FALSE]
     ELSE [obs |-> [NoObs EXCEPT !.shape = "analysis", !.errorType = errorType,
                                 !.suggestions = <<suggestion>>,
                                 !.canRetry = (errorType # "UNKNOWN_ERROR")],
           ran |-> <<>>, threw |-> FALSE]

\* executeAction whose default case raises instead of returning a failure.
executeActionThrows(action, input, allowWrites, o1, o2) ==
  LET name == ToLowerCase(action) IN
    IF name = <<"sql-query">> THEN executeSqlQuery(input, allowWrites, o1)
    ELSE IF name = <<"schema-inspector">> THEN inspectSchema(input, allowWrites, o1, o2)
    ELSE IF name = <<"error-analyzer">> THEN analyzeError(input)
    ELSE [obs |-> ErrorObs("unknown-action", "Unknown action"), ran |-> <<>>,
          threw |-> TRUE]

\* ReactAgentService.executeAction: the observation, the statements handed
\* to the database (ran) and whether the handler raised (threw); every
\* handler catches its own errors.
executeAction(action, input, allowWrites, o1, o2) ==
  LET name == ToLowerCase(action) IN
    IF name = <<"sql-query">> THEN executeSqlQuery(input, allowWrites, o1)
    ELSE IF name = <<"schema-inspector">> THEN inspectSchema(input, allowWrites, o1, o2)
    ELSE IF name = <<"error-analyzer">> THEN analyzeError(input)
    ELSE [obs |-> ErrorObs("unknown-action", "Unknown action"), ran |-> <<>>, threw |-> FALSE]


\* ------------------------------------------------------------------ state
VARIABLES
  env,              \* process.env: ALLOW_WRITE_SQL, REACT_MODE_ENABLED, REACT_MAX_ITERATIONS
  mode,             \* body.mode of the request
  pc,               \* position of the request
  sql,              \* the statement returned by translateDirect
  maxIterations,    \* processQuery locals
  iteration,
  reasoning,
  observations,
  sqlQueries,
  allQueryResults,
  context,
  finalAnswer,
  pending,          \* the parsed action and action input awaiting dispatch
  result,           \* the value returned so far (by processQuery, then the controller)
  outcome,          \* what the caller of handle got: "none", "returned", "threw"
  thrown,           \* the message of the error that reached the caller
  llmCalls,         \* history: model invocations of the ReAct loop
  directCalls,      \* history: invocations of translateDirect
  dbLog,            \* history: statements handed to client.query
  dispatchLog,      \* history: actions dispatched by the loop
  lastResp,         \* history: the last response parsed by the loop
  directResp,       \* history: the last response handed to translateDirect
  sent,             \* history: the context part of each message sent by the loop
  tdAllowWrites,    \* translateDirect local: allowWrites as read on entry
  steps             \* history: passes through the loop head

\* Two requests in flight on the one ReactAgentService instance.
VARIABLES
  creq,             \* per request: its model and database responses (script),
                    \* its position, the turn it is at, the value returned
  clocals,          \* the locals of each activation of processQuery
  cenv              \* process.env of the two requests

\* One call of an action handler, or of the translator's guard, on its own.
VARIABLE
  call              \* the function, its arguments, and what it returned

\* OpenTablesService and the calls of its methods in flight.
VARIABLES
  ots,              \* the service's fields: built, corpus, log
  ocalls,           \* per caller: the method, its arguments, its position
  fetchLog          \* the fetches of the remote table list, in order

\* The connection pool of DbService and the calls of execSelect in flight.
VARIABLES
  pool,             \* checkouts so far, clients held, releases in order
  dcalls            \* per caller: the statement, its position, its client

aux == <<ots, ocalls, fetchLog, pool, dcalls>>

conc == <<creq, clocals, cenv, call, aux>>

vars == <<env, mode, pc, sql, maxIterations, iteration, reasoning, observations,
          sqlQueries, allQueryResults, context, finalAnswer, pending, result,
          outcome, thrown, llmCalls, directCalls, dbLog, dispatchLog,
          lastResp, directResp, sent, steps, tdAllowWrites, conc>>

agentLocals == <<maxIterations, iteration, reasoning, observations, sqlQueries,
                 allQueryResults, context, finalAnswer, pending>>

\* process.env.ALLOW_WRITE_SQL === 'true'
allowWrites == env.ALLOW_WRITE_SQL = "true"

\* reactEnabled that ignores the configuration.
ReactAlwaysEnabled == TRUE

\* process.env.REACT_MODE_ENABLED === 'true'
reactEnabled == env.REACT_MODE_ENABLED = "true"

NoResult ==
  [shape |-> "none", sql |-> <<>>, reasoning |-> <<>>, observations |-> <<>>,
   rows |-> <<>>, iterations |-> 0, success |-> FALSE]

NoPending == [action |-> <<>>, input |-> <<>>]

\* The two concurrent requests.
Reqs == {1, 2}

\* The locals of processQuery as it declares them on entry.
NoLocals ==
  [iteration |-> 0, reasoning |-> <<>>, observations |-> <<>>,
   sqlQueries |-> <<>>, allQueryResults |-> <<>>, context |-> <<>>,
   finalAnswer |-> <<>>, pending |-> NoPending]

\* No handler call.
NoCall ==
  [fn |-> "none", input |-> <<>>, allowWrites |-> FALSE,
   o1 |-> [ok |-> FALSE, rows |-> <<>>], o2 |-> [ok |-> FALSE, rows |-> <<>>],
   returned |-> FALSE, out |-> [obs |-> NoObs, ran |-> <<>>, threw |-> FALSE],
   twice |-> FALSE, again |-> [ok |-> FALSE, sql |-> <<>>, error |-> ""]]

\* A request that has not been received.
IdleReq == [script |-> <<>>, pc |-> "idle", turn |-> 1, result |-> NoResult]

\* Value of lastResp and directResp while the model has not responded.
NoResp == <<"(no response)">>

\* Entries of dbLog for the statements ran, executed by `by`.
Logged(ran, by) ==
  [i \in 1..Len(ran) |->
     [stmt |-> ran[i], writes |-> allowWrites, by |-> by, iter |-> iteration]]

\* The fields of a new OpenTablesService.
NewService == [built |-> FALSE, corpus |-> <<>>, log |-> <<>>]

\* A caller of OpenTablesService that has not called yet.
NoOCall ==
  [fn |-> "", queries |-> <<>>, force |-> FALSE, pc |-> "idle",
   results |-> <<>>, error |-> ""]

\* The pool after new Pool(...): nothing checked out.
NewPool == [leases |-> 0, held |-> {}, released |-> <<>>]

\* A caller of DbService.execSelect that has not called yet.
NoDCall ==
  [pc |-> "idle", sql |-> <<>>, allowWrites |-> FALSE, lease |-> 0,
   connects |-> 0, calls |-> 0, threw |-> FALSE, error |-> "",
   rows |-> <<>>]

\* The two services as constructed, no call made.
AuxIdle ==
  /\ ots = NewService
  /\ ocalls = [p \in Reqs |-> NoOCall]
  /\ fetchLog = <<>>
  /\ pool = NewPool
  /\ dcalls = [p \in Reqs |-> NoDCall]

Init ==
  /\ env \in [ALLOW_WRITE_SQL : {"true", "false"},
              REACT_MODE_ENABLED : {"true", "false"},
              REACT_MAX_ITERATIONS : BudgetEnvs]
  /\ mode \in {"direct", "react"}
  /\ pc = "start"
  /\ sql = <<>>
  /\ maxIterations = NaN
  /\ iteration = 0
  /\ reasoning = <<>>
  /\ observations = <<>>
  /\ sqlQueries = <<>>
  /\ allQueryResults = <<>>
  /\ context = <<>>
  /\ finalAnswer = <<>>
  /\ pending = NoPending
  /\ result = NoResult
  /\ outcome = "none"
  /\ thrown = ""
  /\ llmCalls = 0
  /\ directCalls = 0
  /\ dbLog = <<>>
  /\ dispatchLog = <<>>
  /\ lastResp = NoResp
  /\ directResp = NoResp
  /\ sent = <<>>
  /\ steps = 0
  /\ tdAllowWrites = FALSE
  /\ creq = [p \in Reqs |-> IdleReq]
  /\ clocals = [p \in Reqs |-> NoLocals]
  /\ cenv = [ALLOW_WRITE_SQL |-> "false", REACT_MAX_ITERATIONS |-> <<"1">>]
  /\ call = NoCall
  /\ AuxIdle

\* The request ends with an error surfacing to the caller.
Throw(msg) ==
  /\ outcome' = "threw"
  /\ thrown' = msg
  /\ pc' = "done"

\* QueryController.handle
Handle ==
  /\ pc = "start"
  /\ pc' = IF mode = "react" THEN "process" ELSE "translate"
  /\ tdAllowWrites' = IF mode = "react" THEN tdAllowWrites ELSE allowWrites
  /\ UNCHANGED <<conc, env, mode, sql, agentLocals, result, outcome, thrown, llmCalls,
                 directCalls, dbLog, dispatchLog, lastResp, directResp, sent, steps>>

\* Nl2SqlService.process(prompt, 'react') up to its first await: the
\* fallback to translateDirect when ReAct is disabled, the entry of
\* processQuery (its locals initialised) otherwise.  processQuery raises
\* only when the LLM client is null, which the constructor excludes, so the
\* catch block of process (lines 69-80) has no step here.
Process ==
  /\ pc = "process"
  /\ IF reactEnabled
     THEN /\ pc' = "loop"
          /\ maxIterations' = ParseBudget(env.REACT_MAX_ITERATIONS)
          /\ UNCHANGED tdAllowWrites
     ELSE /\ pc' = "translate"
          /\ tdAllowWrites' = allowWrites
          /\ UNCHANGED maxIterations
  /\ UNCHANGED <<conc, env, mode, sql, iteration, reasoning, observations, sqlQueries,
                 allQueryResults, context, finalAnswer, pending, result,
                 outcome, thrown, llmCalls, directCalls, dbLog, dispatchLog,
                 lastResp, directResp, sent, steps>>

\* Nl2SqlService.translateDirect, called by handleDirectQuery (through
\* translate) or by process when ReAct is disabled: the model call fails,
\* or returns resp, which is guarded and normalised.  No caller catches.
Translate ==
  /\ pc = "translate"
  /\ directCalls' = directCalls + 1
  /\ \/ /\ Throw(ModelErrorMsg)
        /\ UNCHANGED <<sql, directResp>>
     \/ \E resp \in DirectResponses :
          LET t == TranslateDirect(resp, tdAllowWrites) IN
            /\ directResp' = resp
            /\ IF t.ok
               THEN /\ sql' = t.sql
                    /\ pc' = "exec"
                    /\ UNCHANGED <<outcome, thrown>>
               ELSE /\ Throw(t.error)
                    /\ UNCHANGED sql
  /\ UNCHANGED <<conc, tdAllowWrites, env, mode, agentLocals, result, llmCalls, dbLog, dispatchLog,
                 lastResp, sent, steps>>

\* The controller executes the translated statement: handleDirectQuery, or
\* the fallback branch of handleReactQuery, which wraps the rows in the
\* agent shape.
Exec ==
  /\ pc = "exec"
  /\ \E o \in DbOutcomes :
       LET r == ExecSelect(sql, allowWrites, o) IN
         /\ dbLog' = dbLog \o Logged(r.ran, "controller")
         /\ IF r.threw
            THEN /\ Throw(r.error)
                 /\ UNCHANGED result
            ELSE /\ result' =
                      IF mode = "direct"
                      THEN [NoResult EXCEPT !.shape = "direct", !.sql = sql,
                                            !.rows = r.rows]
                      ELSE [shape |-> "agent", sql |-> <<sql>>,
                            reasoning |-> <<<<"Fallback to direct mode due to ReAct being disabled">>>>,
                            observations |-> <<TextObs("Direct SQL generation used")>>,
                            rows |-> r.rows, iterations |-> 1, success |-> TRUE]
                 /\ outcome' = "returned"
                 /\ pc' = "done"
                 /\ UNCHANGED thrown
  /\ UNCHANGED <<conc, tdAllowWrites, env, mode, sql, agentLocals, llmCalls, directCalls,
                 dispatchLog, lastResp, directResp, sent, steps>>


\* ------------------------------------------------------------- ReAct loop
\* LoopResult that returns the last observation only.
LoopResultLastObservation(sqls, reas, obs, rows, it) ==
  [shape |-> "agent", sql |-> sqls, reasoning |-> reas,
   observations |-> IF obs = <<>> THEN obs ELSE <<obs[Len(obs)]>>,
   rows |-> rows, iterations |-> it, success |-> TRUE]

\* The value processQuery returns after its loop.
LoopResult(sqls, reas, obs, rows, it) ==
  [shape |-> "agent", sql |-> sqls, reasoning |-> reas, observations |-> obs,
   rows |-> rows, iterations |-> it, success |-> TRUE]

\* The value processQuery returns from its catch block.
CatchResult(sqls, reas, obs, it, msg) ==
  [shape |-> "agent", sql |-> sqls, reasoning |-> <<<<"Error:", msg>>>>,
   observations |-> <<TextObs("Failed to complete query processing")>>,
   rows |-> <<>>, iterations |-> it, success |-> FALSE]

\* One pass of the while loop of processQuery whose model call returns
\* resp: the thought is recorded, then the run ends with a Final Answer,
\* or an action is parsed for dispatch, or the run ends unparsed.
AgentIterate(resp) ==
  /\ pc = "loop"
  /\ LoopCond(iteration, maxIterations, finalAnswer)
  /\ iteration' = iteration + 1
  /\ llmCalls' = llmCalls + 1
  /\ steps' = steps + 1
  /\ lastResp' = resp
  /\ sent' = Append(sent, context)
  /\ LET tm == thoughtMatch(resp)
         r1 == IF tm.found THEN Append(reasoning, Trim(tm.text)) ELSE reasoning
         kind == TurnKind(resp)
     IN
       \/ /\ kind = "final"
          /\ finalAnswer' = Trim(finalAnswerMatch(resp).text)
          /\ reasoning' = r1
          /\ result' = LoopResult(sqlQueries, r1, observations, allQueryResults,
                                  iteration + 1)
          /\ pc' = "post"
          /\ UNCHANGED pending
       \/ /\ kind = "action"
          /\ pending' = [action |-> Trim(actionMatch(resp).text),
                         input |-> Trim(actionInputMatch(resp).text)]
          /\ reasoning' = r1
          /\ pc' = "dispatch"
          /\ UNCHANGED <<finalAnswer, result>>
       \/ /\ kind = "unparsed"
          /\ reasoning' = Append(r1, Diagnostic)
          /\ result' = LoopResult(sqlQueries, Append(r1, Diagnostic), observations,
                                  allQueryResults, iteration + 1)
          /\ pc' = UnparsedGoto
          /\ UNCHANGED <<finalAnswer, pending>>
  /\ UNCHANGED <<conc, tdAllowWrites, env, mode, sql, maxIterations, observations, sqlQueries,
                 allQueryResults, context, outcome, thrown, directCalls, dbLog,
                 dispatchLog, directResp>>

\* One pass of the loop whose model call fails: the catch block of
\* processQuery returns the failure result.
AgentLlmFails ==
  /\ pc = "loop"
  /\ LoopCond(iteration, maxIterations, finalAnswer)
  /\ iteration' = iteration + 1
  /\ llmCalls' = llmCalls + 1
  /\ steps' = steps + 1
  /\ sent' = Append(sent, context)
  /\ result' = CatchResult(sqlQueries, reasoning, observations, iteration + 1,
                           ModelErrorMsg)
  /\ pc' = "post"
  /\ UNCHANGED <<conc, tdAllowWrites, env, mode, sql, maxIterations, reasoning, observations,
                 sqlQueries, allQueryResults, context, finalAnswer, pending,
                 outcome, thrown, directCalls, dbLog, dispatchLog, lastResp,
                 directResp>>

\* The loop condition fails: processQuery returns what it gathered.
AgentExit ==
  /\ pc = "loop"
  /\ ~LoopCond(iteration, maxIterations, finalAnswer)
  /\ steps' = steps + 1
  /\ result' = LoopResult(sqlQueries, reasoning, observations, allQueryResults,
                          iteration)
  /\ pc' = "post"
  /\ UNCHANGED <<conc, tdAllowWrites, env, mode, sql, agentLocals, outcome, thrown, llmCalls,
                 directCalls, dbLog, dispatchLog, lastResp,
                 directResp, sent>>

\* IsSqlQuery comparing the action name as written.
IsSqlQueryExact(action) == action = <<"sql-query">>

\* action.toLowerCase() === 'sql-query': the dispatch is tracked in the SQL
\* list.
IsSqlQuery(action) == ToLowerCase(action) = <<"sql-query">>

\* AddToContext that records sql-query dispatches only.
AddToContextSqlOnly(ctx, action, input, obs) ==
  IF IsSqlQuery(action)
  THEN Append(ctx, [action |-> action, input |-> input, observation |-> obs])
  ELSE ctx

\* context += Action, Action Input, Observation: the literal entry is added
\* at the end of the context.
AddToContext(ctx, action, input, obs) ==
  Append(ctx, [action |-> action, input |-> input, observation |-> obs])

\* The rest of the loop body for a parsed action: executeAction, the
\* observation, the SQL list, the accumulated rows and the context.  An
\* error raised by executeAction would reach the catch block of
\* processQuery.
Dispatch ==
  /\ pc = "dispatch"
  /\ \E o1 \in DbOutcomes, o2 \in DbOutcomes :
       LET h == executeAction(pending.action, pending.input, allowWrites, o1, o2)
           isSql == IsSqlQuery(pending.action)
       IN
         /\ dbLog' = dbLog \o Logged(h.ran, "handler")
         /\ IF h.threw
            THEN /\ result' = CatchResult(sqlQueries, reasoning, observations,
                                          iteration, h.obs.error)
                 /\ pc' = "post"
                 /\ UNCHANGED <<observations, sqlQueries, allQueryResults,
                                context>>
            ELSE /\ observations' = Append(observations, h.obs)
                 /\ sqlQueries' = IF isSql THEN Append(sqlQueries, pending.input)
                                  ELSE sqlQueries
                 /\ allQueryResults' =
                      IF isSql /\ h.obs.success /\ h.obs.hasData
                      THEN allQueryResults \o h.obs.data
                      ELSE allQueryResults
                 /\ context' = AddToContext(context, pending.action,
                                            pending.input, h.obs)
                 /\ pc' = "loop"
                 /\ UNCHANGED result
  /\ dispatchLog' = Append(dispatchLog, [iter |-> iteration,
                                         action |-> pending.action,
                                         input |-> pending.input])
  /\ pending' = NoPending
  /\ UNCHANGED <<conc, tdAllowWrites, env, mode, sql, maxIterations, iteration, reasoning,
                 finalAnswer, outcome, thrown, llmCalls, directCalls,
                 lastResp, directResp, sent, steps>>

\* handleReactQuery after process returned an agent result: the last
\* statement is executed when the run succeeded without rows; an error of
\* that execution is only logged.
ControllerReact ==
  /\ pc = "post"
  /\ IF result.success /\ Len(result.sql) > 0 /\ Len(result.rows) = 0
     THEN \E o \in DbOutcomes :
            LET r == ExecSelect(result.sql[Len(result.sql)], allowWrites, o) IN
              /\ dbLog' = dbLog \o Logged(r.ran, "reexec")
              /\ result' = IF r.threw THEN result
                           ELSE [result EXCEPT !.rows = r.rows]
     ELSE UNCHANGED <<dbLog, result>>
  /\ outcome' = "returned"
  /\ pc' = "done"
  /\ UNCHANGED <<conc, tdAllowWrites, env, mode, sql, agentLocals, thrown, llmCalls, directCalls,
                 dispatchLog, lastResp, directResp, sent, steps>>

\* process.env.ALLOW_WRITE_SQL is assigned by other code of the process
\* while the request is suspended on the model call of translateDirect.
ConfigChange ==
  /\ pc = "translate"
  /\ env' = [env EXCEPT !.ALLOW_WRITE_SQL =
                          IF @ = "true" THEN "false" ELSE "true"]
  /\ UNCHANGED <<conc, tdAllowWrites, mode, pc, sql, agentLocals, result,
                 outcome, thrown, llmCalls, directCalls, dbLog, dispatchLog,
                 lastResp, directResp, sent, steps>>

Next ==
  \/ Handle
  \/ Process
  \/ Translate
  \/ Exec
  \/ \E resp \in AgentResponses : AgentIterate(resp)
  \/ AgentLlmFails
  \/ AgentExit
  \/ Dispatch
  \/ ControllerReact

Spec == Init /\ [][Next]_vars

\* The request in a process whose configuration may be changed under it.
ConfigNext ==
  \/ Next
  \/ ConfigChange

ConfigSpec == Init /\ [][ConfigNext]_vars

\* Every call of the model and of the database returns or fails: a request
\* that can take a step takes one.
FairSpec == Spec /\ WF_vars(Next)

TypeOK ==
  /\ pc \in {"start", "process", "translate", "exec", "loop", "dispatch",
             "post", "done"}
  /\ outcome \in {"none", "returned", "threw"}
  /\ iteration \in Nat
  /\ llmCalls \in Nat


\* ------------------------------------------------- concurrent requests
\* One turn of a request: the model call fails or answers resp, and o1, o2
\* are the outcomes of the database queries of the dispatched handler.
Turn(resp, o1, o2) == [fail |-> FALSE, resp |-> resp, o1 |-> o1, o2 |-> o2]

RowsOutcome == [ok |-> TRUE, rows |-> <<"row">>]
FailedOutcome == [ok |-> FALSE, rows |-> <<>>]

FailTurn == [fail |-> TRUE, resp |-> <<>>, o1 |-> FailedOutcome,
             o2 |-> FailedOutcome]

\* What the model and the database answer to one request, turn by turn.
Scripts ==
  { << Turn(Act("sql-query", SelectStmt), RowsOutcome, RowsOutcome),
       Turn(Th \o <<HFinalAnswer, WS, "done">>, RowsOutcome, RowsOutcome) >>,
    << Turn(Act("schema-inspector", <<"Tables">>), RowsOutcome, RowsOutcome),
       FailTurn >>,
    << Turn(Th \o <<HFinalAnswer, WS, "done">>, RowsOutcome, RowsOutcome) >>,
    << Turn(Act("SQL-Query", DeleteStmt), FailedOutcome, FailedOutcome),
       Turn(<<"hello">>, RowsOutcome, RowsOutcome) >>,
    << Turn(Act("sql-query", SelectStmt), RowsOutcome, RowsOutcome),
       Turn(Act("sql-query", SelectStmt), FailedOutcome, FailedOutcome) >> }

\* The turn a request is at; a model that has no more answers fails.
TurnAt(script, k) == IF k <= Len(script) THEN script[k] ELSE FailTurn

\* The locals of a request live in its own activation of processQuery
\* (const and let declarations of the function body).
SlotShared(p) == 1

Slot(p) == p

\* The loop body of processQuery from iteration++ to the parse of the
\* response of turn t, on the locals L: the locals after it, where control
\* goes (goto), and the value returned when it returns.
ModelStep(L, t) ==
  LET it == L.iteration + 1
      tm == thoughtMatch(t.resp)
      r1 == IF tm.found THEN Append(L.reasoning, Trim(tm.text)) ELSE L.reasoning
      kind == TurnKind(t.resp)
  IN
    IF t.fail
    THEN [locals |-> [L EXCEPT !.iteration = it], goto |-> "return",
          result |-> CatchResult(L.sqlQueries, L.reasoning, L.observations, it,
                                 ModelErrorMsg)]
    ELSE IF kind = "final"
    THEN [locals |-> [L EXCEPT !.iteration = it, !.reasoning = r1,
                               !.finalAnswer = Trim(finalAnswerMatch(t.resp).text)],
          goto |-> "return",
          result |-> LoopResult(L.sqlQueries, r1, L.observations,
                                L.allQueryResults, it)]
    ELSE IF kind = "action"
    THEN [locals |-> [L EXCEPT !.iteration = it, !.reasoning = r1,
                               !.pending = [action |-> Trim(actionMatch(t.resp).text),
                                            input |-> Trim(actionInputMatch(t.resp).text)]],
          goto |-> "dispatch", result |-> NoResult]
    ELSE [locals |-> [L EXCEPT !.iteration = it,
                               !.reasoning = Append(r1, Diagnostic)],
          goto |-> "return",
          result |-> LoopResult(L.sqlQueries, Append(r1, Diagnostic),
                                L.observations, L.allQueryResults, it)]

\* The rest of the loop body for the parsed action of L: executeAction with
\* the database outcomes of turn t, then the pushes to the locals.
DispatchStep(L, t, aw) ==
  LET h == executeAction(L.pending.action, L.pending.input, aw, t.o1, t.o2)
      isSql == IsSqlQuery(L.pending.action)
  IN
    IF h.threw
    THEN [locals |-> L, goto |-> "return",
          result |-> CatchResult(L.sqlQueries, L.reasoning, L.observations,
                                 L.iteration, h.obs.error)]
    ELSE [locals |->
            [L EXCEPT
               !.observations = Append(@, h.obs),
               !.sqlQueries = IF isSql THEN Append(@, L.pending.input) ELSE @,
               !.allQueryResults =
                  IF isSql /\ h.obs.success /\ h.obs.hasData
                  THEN @ \o h.obs.data ELSE @,
               !.context = AddToContext(@, L.pending.action, L.pending.input, h.obs),
               !.pending = NoPending],
          goto |-> "loop", result |-> NoResult]

RECURSIVE SoloRun(_, _, _, _, _)
\* processQuery run from turn k on the locals L with no other request in
\* the process: the value it returns.
SoloRun(script, k, L, aw, maxIt) ==
  IF ~LoopCond(L.iteration, maxIt, L.finalAnswer)
  THEN LoopResult(L.sqlQueries, L.reasoning, L.observations,
                  L.allQueryResults, L.iteration)
  ELSE LET m == ModelStep(L, TurnAt(script, k)) IN
    IF m.goto = "return" THEN m.result
    ELSE LET d == DispatchStep(m.locals, TurnAt(script, k), aw) IN
      IF d.goto = "return" THEN d.result
      ELSE SoloRun(script, k + 1, d.locals, aw, maxIt)

cAllowWrites == cenv.ALLOW_WRITE_SQL = "true"
cMaxIterations == ParseBudget(cenv.REACT_MAX_ITERATIONS)

\* The single-request variables stay as Init leaves them.
single == <<env, mode, pc, sql, maxIterations, iteration, reasoning,
            observations, sqlQueries, allQueryResults, context, finalAnswer,
            pending, result, outcome, thrown, llmCalls, directCalls, dbLog,
            dispatchLog, lastResp, directResp, sent, steps, tdAllowWrites>>

\* The single request has not been received.
SingleIdle ==
  /\ env = [ALLOW_WRITE_SQL |-> "false", REACT_MODE_ENABLED |-> "true",
            REACT_MAX_ITERATIONS |-> <<"1">>]
  /\ mode = "react"
  /\ pc = "start"
  /\ sql = <<>>
  /\ maxIterations = NaN
  /\ iteration = 0
  /\ reasoning = <<>>
  /\ observations = <<>>
  /\ sqlQueries = <<>>
  /\ allQueryResults = <<>>
  /\ context = <<>>
  /\ finalAnswer = <<>>
  /\ pending = NoPending
  /\ result = NoResult
  /\ outcome = "none"
  /\ thrown = ""
  /\ llmCalls = 0
  /\ directCalls = 0
  /\ dbLog = <<>>
  /\ dispatchLog = <<>>
  /\ lastResp = NoResp
  /\ directResp = NoResp
  /\ sent = <<>>
  /\ steps = 0
  /\ tdAllowWrites = FALSE

ConcInit ==
  /\ SingleIdle
  /\ \E sc \in [Reqs -> Scripts] :
       creq = [p \in Reqs |-> [IdleReq EXCEPT !.script = sc[p]]]
  /\ clocals = [p \in Reqs |-> NoLocals]
  /\ cenv \in [ALLOW_WRITE_SQL : {"true", "false"},
               REACT_MAX_ITERATIONS : {<<"1">>, <<"2">>, <<"3">>}]
  /\ call = NoCall
  /\ AuxIdle

\* processQuery is entered for request p: its locals are declared.
CStart(p) ==
  /\ creq[p].pc = "idle"
  /\ creq' = [creq EXCEPT ![p].pc = "loop"]
  /\ clocals' = [clocals EXCEPT ![Slot(p)] = NoLocals]
  /\ UNCHANGED <<cenv, single, call, aux>>

\* Request p resumes from its model call.
CModel(p) ==
  /\ creq[p].pc = "loop"
  /\ LoopCond(clocals[Slot(p)].iteration, cMaxIterations,
              clocals[Slot(p)].finalAnswer)
  /\ LET m == ModelStep(clocals[Slot(p)], TurnAt(creq[p].script, creq[p].turn))
     IN /\ clocals' = [clocals EXCEPT ![Slot(p)] = m.locals]
        /\ creq' = [creq EXCEPT
                      ![p].pc = IF m.goto = "return" THEN "done" ELSE "dispatch",
                      ![p].result = m.result]
  /\ UNCHANGED <<cenv, single, call, aux>>

\* Request p resumes from executeAction.
CDispatch(p) ==
  /\ creq[p].pc = "dispatch"
  /\ LET d == DispatchStep(clocals[Slot(p)],
                           TurnAt(creq[p].script, creq[p].turn), cAllowWrites)
     IN /\ clocals' = [clocals EXCEPT ![Slot(p)] = d.locals]
        /\ creq' = [creq EXCEPT
                      ![p].pc = IF d.goto = "return" THEN "done" ELSE "loop",
                      ![p].turn = @ + 1,
                      ![p].result = d.result]
  /\ UNCHANGED <<cenv, single, call, aux>>

\* The loop condition of request p fails: it returns what it gathered.
CExit(p) ==
  /\ creq[p].pc = "loop"
  /\ ~LoopCond(clocals[Slot(p)].iteration, cMaxIterations,
               clocals[Slot(p)].finalAnswer)
  /\ LET L == clocals[Slot(p)] IN
       creq' = [creq EXCEPT
                  ![p].pc = "done",
                  ![p].result = LoopResult(L.sqlQueries, L.reasoning,
                                           L.observations, L.allQueryResults,
                                           L.iteration)]
  /\ UNCHANGED <<clocals, cenv, single, call, aux>>

ConcNext ==
  \/ \E p \in Reqs : CStart(p)
  \/ \E p \in Reqs : CModel(p)
  \/ \E p \in Reqs : CDispatch(p)
  \/ \E p \in Reqs : CExit(p)

ConcSpec == ConcInit /\ [][ConcNext]_vars


\* ---------------------------------------------------- handler calls
\* All texts of at most n tokens over the tokens T.
TextsUpTo(T, n) == UNION {[1..k -> T] : k \in 0..n}

\* Tokens of the error texts handed to the error analyzer.
ErrTokens ==
  {"Syntax Error", "Relation", "column", "does not exist",
   "only select statements are allowed", "x"}

\* Inputs of the error analyzer: plain error texts, the same texts as the
\* error member of a JSON object, and JSON objects whose error member is a
\* number.
\* The tokens of the two guard messages a sql-query observation can carry.
MsgTokens(msg) ==
  CASE msg = ExecGuardMsg ->
         <<"Guard:", WS, "Only SELECT statements are allowed", ".">>
    [] msg = HandlerGuardMsg -> <<"Only SELECT queries are allowed">>

\* The sql-query observations of a guard rejection, as the model hands
\* them to the error analyzer.
GuardErrorInputs ==
  {<<"{error:">> \o MsgTokens(msg) \o <<"}">> :
     msg \in {HandlerGuardMsg, ExecGuardMsg}}

ErrorInputs ==
  TextsUpTo(ErrTokens, MaxErrLen)
    \cup GuardErrorInputs
    \cup {<<"{error:">> \o t \o <<"}">> :
            t \in TextsUpTo(ErrTokens, MaxErrLen) \ {<<>>}}
    \cup {<<"{error:", "0", "}">>, <<"{error:", "4", "}">>}

\* Tokens of the commands handed to the schema inspector.
CmdTokens == {"Tables", "describe", "sample", "drop", "contacts", WS}

InspectInputs == TextsUpTo(CmdTokens, MaxCmdLen)

HandlerInit ==
  /\ SingleIdle
  /\ AuxIdle
  /\ creq = [p \in Reqs |-> IdleReq]
  /\ clocals = [p \in Reqs |-> NoLocals]
  /\ cenv = [ALLOW_WRITE_SQL |-> "false", REACT_MAX_ITERATIONS |-> <<"1">>]
  /\ \/ \E input \in ErrorInputs :
          call = [NoCall EXCEPT !.fn = "analyzeError", !.input = input]
     \/ \E input \in InspectInputs, aw \in BOOLEAN :
          call = [NoCall EXCEPT !.fn = "inspectSchema", !.input = input,
                                !.allowWrites = aw]
     \/ \E resp \in DirectResponses, aw \in BOOLEAN :
          call = [NoCall EXCEPT !.fn = "guard", !.input = resp,
                                !.allowWrites = aw]

\* executeAction('error-analyzer', input) returns.
CallAnalyzeError ==
  /\ call.fn = "analyzeError"
  /\ ~call.returned
  /\ call' = [call EXCEPT !.returned = TRUE, !.out = analyzeError(call.input)]
  /\ UNCHANGED <<single, creq, clocals, cenv, aux>>

\* executeAction('schema-inspector', input) returns, its database queries
\* having had the outcomes o1 and o2.
CallInspectSchema ==
  /\ call.fn = "inspectSchema"
  /\ ~call.returned
  /\ \E o1 \in DbOutcomes, o2 \in DbOutcomes :
       call' = [call EXCEPT
                  !.returned = TRUE, !.o1 = o1, !.o2 = o2,
                  !.out = inspectSchema(call.input, call.allowWrites, o1, o2)]
  /\ UNCHANGED <<single, creq, clocals, cenv, aux>>

\* The guard that writes the normalised statement back over the text it
\* was given.
ContentAfterGuardOverwritten(content, g) == g.sql

\* The response text after the guard and the normalisation ran on it: line
\* 119 copies it into the local sql, the only thing lines 122-132 assign.
ContentAfterGuard(content, g) == content

\* The guard and the normalisation of translateDirect evaluate the text.
CallGuard ==
  /\ call.fn = "guard"
  /\ ~call.returned
  /\ LET g == TranslateDirect(call.input, call.allowWrites) IN
       call' = [call EXCEPT !.returned = TRUE, !.out = g,
                            !.input = ContentAfterGuard(call.input, g)]
  /\ UNCHANGED <<single, creq, clocals, cenv, aux>>

\* They evaluate the same text under the same policy once more.
CallGuardAgain ==
  /\ call.fn = "guard"
  /\ call.returned
  /\ ~call.twice
  /\ LET g == TranslateDirect(call.input, call.allowWrites) IN
       call' = [call EXCEPT !.twice = TRUE, !.again = g,
                            !.input = ContentAfterGuard(call.input, g)]
  /\ UNCHANGED <<single, creq, clocals, cenv, aux>>

HandlerNext ==
  \/ CallAnalyzeError
  \/ CallInspectSchema
  \/ CallGuard
  \/ CallGuardAgain

HandlerSpec == HandlerInit /\ [][HandlerNext]_vars


\* ------------------------------------------------------ open-table corpus
\* Longest candidate list handed to suggestForList.
MaxQueries == 2

single_conc == <<single, creq, clocals, cenv, call>>

\* The JSON document at OPEN_TABLES_SPIDER_URL: one database with cleaned
\* table names, one with original names only, among them an empty name.
RemoteTables ==
  << [db_id |-> "shop", table_names |-> <<"orders", "items">>,
      table_names_original |-> <<"Orders", "Items">>],
     [db_id |-> "hr", table_names |-> <<>>,
      table_names_original |-> <<"emp", "", "orders">>] >>

\* The names pushed for one database: db.table and the raw table name, for
\* every non-empty name of table_names, or of table_names_original when
\* table_names is empty.
RECURSIVE NamesOf(_, _)
NamesOf(db_id, tnames) ==
  IF tnames = <<>> THEN <<>>
  ELSE LET t == Head(tnames) IN
       (IF t = "" THEN <<>> ELSE << <<db_id, ".", t>>, <<t>> >>)
         \o NamesOf(db_id, Tail(tnames))

\* The body of loadSpiderTables after the response parsed: the flat list.
RECURSIVE Flatten(_)
Flatten(data) ==
  IF data = <<>> THEN <<>>
  ELSE LET db == Head(data)
           tnames == IF Len(db.table_names) > 0 THEN db.table_names
                     ELSE db.table_names_original
       IN NamesOf(db.db_id, tnames) \o Flatten(Tail(data))

\* Array.from(new Set(names)): the first occurrence of each name, in order.
RECURSIVE FromSet(_, _)
FromSet(names, seen) ==
  IF names = <<>> THEN <<>>
  ELSE IF Head(names) \in seen THEN FromSet(Tail(names), seen)
  ELSE <<Head(names)>> \o FromSet(Tail(names), seen \cup {Head(names)})

\* What fetch and res.json can do: a parsed document, a response that is
\* not ok, or a rejected promise.
FetchOutcomes == {"ok", "http-error", "rejected"}

FetchFailedMsg == "Spider fetch failed"

\* The queries a caller may ask for.
Queries == {"orders", "emp"}

QueryLists == TextsUpTo(Queries, MaxQueries)

\* fuzzysort.go(query, corpus) filtered by score: the names of the corpus
\* that have the query as a component.
Search(query, corpus) ==
  LET hit(n) == \E i \in 1..Len(n) : n[i] = query
  IN SelectSeq(corpus, hit)

\* initCorpus(force) up to its first suspension, for caller p at position
\* after: it returns at once when the corpus is built and no rebuild is
\* forced, otherwise the fetch is issued and the caller waits for it.
InitCorpusEnter(p, fn, qs, force) ==
  IF ots.built /\ ~force
  THEN /\ ocalls' = [ocalls EXCEPT ![p] =
            [NoOCall EXCEPT !.fn = fn, !.queries = qs, !.force = force,
                            !.pc = "afterInit"]]
       /\ UNCHANGED fetchLog
  ELSE /\ ocalls' = [ocalls EXCEPT ![p] =
            [NoOCall EXCEPT !.fn = fn, !.queries = qs, !.force = force,
                            !.pc = "fetching"]]
       /\ fetchLog' = Append(fetchLog, [by |-> p, force |-> force])

\* A caller enters suggestTables(query), suggestForList(queries) or
\* initCorpus(true). The two suggest methods test built and call
\* initCorpus() when it is false; with the corpus built suggestTables
\* searches and returns, and suggestForList goes on to map its queries.
OCall(p, fn, qs) ==
  /\ ocalls[p].pc = "idle"
  /\ \/ /\ fn = "initCorpus"
        /\ qs = <<>>
        /\ InitCorpusEnter(p, fn, qs, TRUE)
     \/ /\ fn = "suggestTables"
        /\ Len(qs) = 1
        /\ IF ~ots.built
           THEN InitCorpusEnter(p, fn, qs, FALSE)
           ELSE /\ ocalls' = [ocalls EXCEPT ![p] =
                     [NoOCall EXCEPT !.fn = fn, !.queries = qs, !.pc = "done",
                        !.results = <<Search(qs[1], ots.corpus)>>]]
                /\ UNCHANGED fetchLog
     \/ /\ fn = "suggestForList"
        /\ IF ~ots.built
           THEN InitCorpusEnter(p, fn, qs, FALSE)
           ELSE /\ ocalls' = [ocalls EXCEPT ![p] =
                     [NoOCall EXCEPT !.fn = fn, !.queries = qs, !.pc = "map"]]
                /\ UNCHANGED fetchLog
  /\ UNCHANGED <<ots, pool, dcalls, single_conc>>

\* The fetch of caller p settles. A failure throws out of loadSpiderTables,
\* initCorpus and the suggest method, before any field is assigned; a
\* parsed document is flattened, corpus is assigned and built is set.
OFetch(p, o) ==
  /\ ocalls[p].pc = "fetching"
  /\ IF o = "ok"
     THEN /\ ots' = [built |-> TRUE,
                     corpus |-> FromSet(Flatten(RemoteTables), {}),
                     log |-> Append(ots.log, "Open table corpus ready")]
          /\ ocalls' = [ocalls EXCEPT ![p].pc = "afterInit"]
     ELSE /\ ocalls' = [ocalls EXCEPT ![p].pc = "threw",
                                      ![p].error = FetchFailedMsg]
          /\ UNCHANGED ots
  /\ UNCHANGED <<fetchLog, pool, dcalls, single_conc>>

\* The caller resumes after await this.initCorpus(): initCorpus itself
\* returns, suggestTables searches the corpus, suggestForList goes on to
\* map its queries.
OAfterInit(p) ==
  /\ ocalls[p].pc = "afterInit"
  /\ LET c == ocalls[p] IN
     ocalls' = [ocalls EXCEPT ![p] =
       IF c.fn = "initCorpus" THEN [c EXCEPT !.pc = "done"]
       ELSE IF c.fn = "suggestTables"
       THEN [c EXCEPT !.pc = "done",
                      !.results = <<Search(c.queries[1], ots.corpus)>>]
       ELSE [c EXCEPT !.pc = "map"]]
  /\ UNCHANGED <<ots, fetchLog, pool, dcalls, single_conc>>

\* queries.map((q) => this.suggestTables(q)) under Promise.all: every
\* nested call starts in the same turn and tests built. With the corpus
\* built each one searches; were it not, each one would issue a fetch of
\* its own (built is never reset, so that branch is never taken).
OMap(p) ==
  /\ ocalls[p].pc = "map"
  /\ IF ots.built
     THEN /\ ocalls' = [ocalls EXCEPT ![p].pc = "done",
               ![p].results = [i \in 1..Len(ocalls[p].queries) |->
                                 Search(ocalls[p].queries[i], ots.corpus)]]
          /\ UNCHANGED fetchLog
     ELSE /\ ocalls' = [ocalls EXCEPT ![p].pc = "nested"]
          /\ fetchLog' = fetchLog \o
               [i \in 1..Len(ocalls[p].queries) |-> [by |-> p, force |-> FALSE]]
  /\ UNCHANGED <<ots, pool, dcalls, single_conc>>

CorpusInit ==
  /\ SingleIdle
  /\ creq = [p \in Reqs |-> IdleReq]
  /\ clocals = [p \in Reqs |-> NoLocals]
  /\ cenv = [ALLOW_WRITE_SQL |-> "false", REACT_MAX_ITERATIONS |-> <<"1">>]
  /\ call = NoCall
  /\ AuxIdle

CorpusNext ==
  \/ \E p \in Reqs, fn \in {"initCorpus", "suggestTables", "suggestForList"},
        qs \in QueryLists : OCall(p, fn, qs)
  \/ \E p \in Reqs, o \in FetchOutcomes : OFetch(p, o)
  \/ \E p \in Reqs : OAfterInit(p)
  \/ \E p \in Reqs : OMap(p)

CorpusSpec == CorpusInit /\ [][CorpusNext]_vars

\* -------------------------------------------------------- connection pool
\* Calls of execSelect each caller makes.
MaxCalls == 2

ConnectFailedMsg == "timeout exceeded when trying to connect"

\* The finally block skipped when client.query rejects.
ReleaseAfterSuccess(pl, lease, threw) ==
  IF threw THEN pl
  ELSE [pl EXCEPT !.held = @ \ {lease}, !.released = Append(@, lease)]

\* finally { client.release() }: the client goes back to the pool whether
\* client.query resolved or rejected.
ReleaseAfter(pl, lease, threw) ==
  [pl EXCEPT !.held = @ \ {lease}, !.released = Append(@, lease)]

\* execSelect(sql) is entered with ALLOW_WRITE_SQL read as aw: the guard
\* throws before the pool is touched, otherwise pool.connect() is awaited.
DbCall(p, stmt, aw) ==
  /\ dcalls[p].pc = "idle"
  /\ dcalls[p].calls < MaxCalls
  /\ dcalls' = [dcalls EXCEPT ![p] =
       IF ~ExecGuard(stmt, aw)
       THEN [NoDCall EXCEPT !.calls = dcalls[p].calls + 1, !.sql = stmt,
               !.allowWrites = aw, !.pc = "threw", !.threw = TRUE,
               !.error = ExecSelect(stmt, aw, [ok |-> TRUE, rows |-> <<>>]).error]
       ELSE [NoDCall EXCEPT !.calls = dcalls[p].calls + 1, !.sql = stmt,
               !.allowWrites = aw, !.pc = "connecting", !.connects = 1]]
  /\ UNCHANGED <<pool, ots, ocalls, fetchLog, single_conc>>

\* pool.connect() settles: a client is checked out, or the promise rejects
\* (before the try block, so nothing is held and nothing is released).
DbConnect(p, ok) ==
  /\ dcalls[p].pc = "connecting"
  /\ IF ok
     THEN /\ pool' = [pool EXCEPT !.leases = @ + 1, !.held = @ \cup {pool.leases + 1}]
          /\ dcalls' = [dcalls EXCEPT ![p].pc = "querying",
                                      ![p].lease = pool.leases + 1]
     ELSE /\ dcalls' = [dcalls EXCEPT ![p].pc = "threw", ![p].threw = TRUE,
                                      ![p].error = ConnectFailedMsg]
          /\ UNCHANGED pool
  /\ UNCHANGED <<ots, ocalls, fetchLog, single_conc>>

\* client.query settles with outcome o; the finally block runs and the
\* rows are returned or the error is rethrown.
DbQuery(p, o) ==
  /\ dcalls[p].pc = "querying"
  /\ LET r == ExecSelect(dcalls[p].sql, dcalls[p].allowWrites, o) IN
       /\ pool' = ReleaseAfter(pool, dcalls[p].lease, r.threw)
       /\ dcalls' = [dcalls EXCEPT
            ![p].pc = IF r.threw THEN "threw" ELSE "returned",
            ![p].threw = r.threw, ![p].error = r.error, ![p].rows = r.rows]
  /\ UNCHANGED <<ots, ocalls, fetchLog, single_conc>>

\* The caller has its result and may call again.
DbNextCall(p) ==
  /\ dcalls[p].pc \in {"returned", "threw"}
  /\ dcalls[p].calls < MaxCalls
  /\ dcalls' = [dcalls EXCEPT ![p] = [NoDCall EXCEPT !.calls = dcalls[p].calls]]
  /\ UNCHANGED <<pool, ots, ocalls, fetchLog, single_conc>>

DbInit == CorpusInit

DbNext ==
  \/ \E p \in Reqs, stmt \in {SelectStmt, DeleteStmt}, aw \in BOOLEAN :
       DbCall(p, stmt, aw)
  \/ \E p \in Reqs, ok \in BOOLEAN : DbConnect(p, ok)
  \/ \E p \in Reqs, o \in DbOutcomes : DbQuery(p, o)
  \/ \E p \in Reqs : DbNextCall(p)

DbSpec == DbInit /\ [][DbNext]_vars

\* ================================================================= claims
\* The text begins, after leading whitespace, with SELECT in any case.
BeginsWithSelect(s) ==
  LET t == TrimStart(s) IN t # <<>> /\ Lower(t[1]) = "select"

\* The request is served by the ReAct loop.
AgentRun == mode = "react" /\ reactEnabled /\ pc \notin {"start", "process"}

Last(q) == q[Len(q)]

IsPrefix(p, q) == Len(p) <= Len(q) /\ SubSeq(q, 1, Len(p)) = p

\* C1: with writes disabled, every statement handed to the database, on
\* every path (direct mode, sql-query actions, schema-inspector queries, the
\* controller's re-execution), begins with SELECT after leading whitespace.
C1_ExecutedAreSelect ==
  \A i \in 1..Len(dbLog) : ~dbLog[i].writes => BeginsWithSelect(dbLog[i].stmt)

\* C1 witness: with writes disabled, a handler statement and a statement
\* re-executed by the controller have both reached the database.
C1_Witness ==
  /\ ~allowWrites
  /\ \E i \in 1..Len(dbLog) : dbLog[i].by = "handler"
  /\ \E i \in 1..Len(dbLog) : dbLog[i].by = "reexec"
  /\ Len(sqlQueries) = 2
  /\ ~BeginsWithSelect(sqlQueries[1])

\* The text after one optional fenced-code marker (bare or sql-tagged) and
\* leading whitespace are stripped.
AfterOptionalFence(s) ==
  LET t == TrimStart(s) IN
    IF TestFenceSql(t) THEN TrimStart(Tail(Tail(t)))
    ELSE IF t # <<>> /\ t[1] = Fence THEN TrimStart(Tail(t))
    ELSE t

\* C2: with writes disabled the direct translator's guard accepts a model
\* response exactly when the response, after one optional fenced-code marker
\* and leading whitespace are stripped, begins with select in any case.
C2_GuardIffSelectPrefix ==
  (directCalls = 1 /\ directResp # NoResp /\ ~allowWrites)
    => ((thrown # GuardAbortMsg) <=> BeginsWithSelect(AfterOptionalFence(directResp)))

\* The budget as a bound: the configured number when it is a non-negative
\* number, 0 when it is negative or not a number.
EffectiveBudget ==
  IF maxIterations.num /\ maxIterations.n >= 0 THEN maxIterations.n ELSE 0

HandlerCallsThisTurn ==
  {i \in 1..Len(dbLog) : dbLog[i].by = "handler" /\ dbLog[i].iter = iteration}

\* C5: a response with both a Final Answer and an Action section ends the
\* run successfully at that iteration and nothing is dispatched for it: no
\* handler database call, no observation, SQL entry or context text.
C5_FinalAnswerWins ==
  (AgentRun /\ lastResp # NoResp
     /\ finalAnswerMatch(lastResp).found /\ actionMatch(lastResp).found)
    => /\ pc \in {"post", "done"}
       /\ result.success
       /\ result.iterations = iteration
       /\ llmCalls = iteration
       /\ Len(observations) = iteration - 1
       /\ Len(context) = iteration - 1
       /\ Len(sqlQueries) <= iteration - 1
       /\ Len(dispatchLog) = iteration - 1
       /\ HandlerCallsThisTurn = {}

\* C5 witness: the second response holds both sections and the run is over.
C5_Witness ==
  /\ AgentRun
  /\ pc = "done"
  /\ iteration = 2
  /\ finalAnswerMatch(lastResp).found
  /\ actionMatch(lastResp).found
  /\ actionInputMatch(lastResp).found
  /\ result.success

\* C6: the result of a run that failed part-way has success=false and
\* holds the reasoning entries and observations gathered before the
\* failure, in order.
C6_FailureKeepsPartialTrace ==
  (AgentRun /\ result.shape = "agent" /\ ~result.success)
    => /\ IsPrefix(reasoning, result.reasoning)
       /\ IsPrefix(observations, result.observations)

\* C7: no agent-mode request surfaces an exception to the caller, with
\* ReAct enabled or disabled.
C7_AgentModeNeverThrows ==
  mode = "react" => outcome # "threw"

\* C8: when the model call of the loop fails (the only source of a
\* success=false result), exactly one direct-mode translation has been
\* attempted by the time the request ends.
C8_OneFallbackAttempt ==
  (AgentRun /\ pc = "done" /\ ~result.success) => directCalls = 1

\* C9: a run that ended on an unparseable response returns success=false.
C9_ParseErrorIsFailure ==
  (AgentRun /\ outcome = "returned" /\ lastResp # NoResp
     /\ TurnKind(lastResp) = "unparsed")
    => ~result.success

\* The response holds none of the four section headers.
NoSection(s) ==
  /\ ~thoughtMatch(s).found
  /\ ~actionMatch(s).found
  /\ ~actionInputMatch(s).found
  /\ ~finalAnswerMatch(s).found

\* C10: a response without any section header ends the run at that
\* iteration: the diagnostic is the last reasoning entry, the model is not
\* invoked again and no handler is dispatched for it.
C10_NoSectionEndsRun ==
  (AgentRun /\ lastResp # NoResp /\ NoSection(lastResp))
    => /\ pc \in {"post", "done"}
       /\ Last(reasoning) = Diagnostic
       /\ Last(result.reasoning) = Diagnostic
       /\ result.iterations = iteration
       /\ llmCalls = iteration
       /\ Len(dispatchLog) = iteration - 1
       /\ Len(observations) = iteration - 1
       /\ HandlerCallsThisTurn = {}

\* C10 witness: the first response has no section header and the request
\* has returned after one model invocation.
C10_Witness ==
  /\ AgentRun
  /\ outcome = "returned"
  /\ lastResp = <<"hello">>
  /\ llmCalls = 1
  /\ result.iterations = 1
  /\ result.reasoning = <<Diagnostic>>


\* The observation reports a handler failure.
IsFailure(obs) == obs.error # ""

\* The state right after the dispatch of the current iteration, or after
\* the loop exit that follows it.
AfterDispatch ==
  AgentRun /\ dispatchLog # <<>> /\ Last(dispatchLog).iter = iteration
           /\ pc # "dispatch"

\* C11: a failure of an action handler (guard rejection, execution error,
\* schema-inspector error, unregistered action) never raises out of the
\* loop and never ends the run: it is appended as an observation and the
\* loop goes on, to stop only when the budget is used up.
C11_HandlerFailureIsObserved ==
  AfterDispatch =>
    /\ Len(observations) = Len(dispatchLog)
    /\ outcome # "threw"
    /\ IsFailure(Last(observations)) =>
         \/ pc = "loop" /\ result = NoResult
                        /\ (iteration < EffectiveBudget =>
                              LoopCond(iteration, maxIterations, finalAnswer))
         \/ pc \in {"post", "done"} /\ result.success
                                    /\ iteration = EffectiveBudget
                                    /\ Last(result.observations) = Last(observations)

\* C11 witness: a guard rejection and an unregistered action were both
\* observed and the run returned normally.
C11_Witness ==
  /\ AgentRun
  /\ outcome = "returned"
  /\ Len(observations) = 2
  /\ observations[1].shape = "sql-rejected"
  /\ observations[2].shape = "unknown-action"
  /\ result.success


\* Every pass of the budget dispatched an action: no Final Answer came.
BudgetDispatched ==
  AgentRun /\ maxIterations.num /\ maxIterations.n >= 1
           /\ Len(dispatchLog) = maxIterations.n /\ pc # "dispatch"

\* C12: when maxIterations responses in a row each dispatch an action, the
\* run leaves the loop and processQuery returns normally with iterations =
\* maxIterations and the whole reasoning, observations and SQL list.
C12_BudgetExhaustedReturnsTrace ==
  BudgetDispatched =>
    /\ ~LoopCond(iteration, maxIterations, finalAnswer)
    /\ outcome # "threw"
    /\ pc \in {"post", "done"} =>
         /\ result.shape = "agent"
         /\ result.iterations = maxIterations.n
         /\ result.reasoning = reasoning
         /\ result.observations = observations
         /\ Len(result.observations) = maxIterations.n
         /\ result.sql = sqlQueries

\* C12 witness: MaxBudget dispatches, the first a sql-query, and the request
\* has returned.
C12_Witness ==
  /\ BudgetDispatched
  /\ maxIterations.n = MaxBudget
  /\ outcome = "returned"
  /\ Len(result.observations) = MaxBudget
  /\ Len(result.sql) >= 1
  /\ result.iterations = MaxBudget


\* The last dispatched action was a sql-query whose observation is in.
SqlDispatched ==
  /\ AgentRun
  /\ dispatchLog # <<>>
  /\ Len(observations) = Len(dispatchLog)
  /\ IsSqlQuery(Last(dispatchLog).action)

\* The sql-query handler let the statement through to the database.
HandlerAccepted(obs) ==
  obs.shape = "sql-rows" \/ (obs.shape = "sql-failed" /\ obs.error = DbErrorMsg)

\* C13: for both values of allowWrites the sql-query handler accepts a
\* statement for execution exactly when the guard of the direct path
\* accepts it under the current policy.
C13_HandlerGuardEqualsDirectGuard ==
  SqlDispatched =>
    (HandlerAccepted(Last(observations))
       <=> GuardDirect(Last(dispatchLog).input, allowWrites).ok)


\* The model answered the direct translation and the guard of
\* translateDirect rejects that answer under the SELECT-only policy.
DirectGuardRejected ==
  /\ ~allowWrites
  /\ directResp # NoResp
  /\ ~GuardDirect(directResp, FALSE).ok

\* C14: in direct mode with allowWrites=false a response the guard rejects
\* fails the request with the guard's error after exactly one model call:
\* no second call, no statement on the database, no result.
C14_DirectRejectionFailsOnce ==
  (mode = "direct" /\ DirectGuardRejected) =>
    /\ pc = "done"
    /\ outcome = "threw"
    /\ thrown = GuardAbortMsg
    /\ directCalls = 1
    /\ llmCalls = 0
    /\ dbLog = <<>>
    /\ result = NoResult

C14_Witness ==
  /\ mode = "direct"
  /\ DirectGuardRejected
  /\ directResp = <<Fence, "SQL", WS, "DELETE", WS, "*", WS, Fence>>
  /\ pc = "done"
  /\ thrown = GuardAbortMsg


\* C15 as stated: with allowWrites=false, when the guard rejects a
\* non-SELECT candidate the caller is handed the constant safe-message
\* statement and nothing is executed.
C15_RejectionReturnsSafeStatement ==
  (DirectGuardRejected /\ pc = "done") =>
    /\ outcome = "returned"
    /\ result.sql \in {SafeStmt, <<SafeStmt>>}
    /\ dbLog = <<>>

\* C15 amended: with allowWrites=false, when the guard rejects a non-SELECT
\* candidate the request fails with the guard's error in direct mode and in
\* the disabled-agent fallback alike; no statement, the safe-message one
\* included, is returned or executed.
C15_RejectionThrowsNothingReturned ==
  DirectGuardRejected =>
    /\ pc = "done"
    /\ outcome = "threw"
    /\ thrown = GuardAbortMsg
    /\ result = NoResult
    /\ result.sql \notin {SafeStmt, <<SafeStmt>>}
    /\ dbLog = <<>>

C15_Witness ==
  /\ DirectGuardRejected
  /\ mode = "react"
  /\ directResp = DeleteStmt
  /\ pc = "done"
  /\ outcome = "threw"


\* An agent-mode request while REACT_MODE_ENABLED is not 'true'.
AgentDisabledRequest == mode = "react" /\ env.REACT_MODE_ENABLED # "true"

\* C16: with agent mode disabled by configuration an agent-mode request
\* never enters the agent loop, and the result it returns is agent-shaped
\* with iterations 1, the fixed fallback notice as reasoning, success, and
\* a sql list holding exactly the statement of the direct translation of
\* the same model response.
C16_DisabledAgentFallsBackToDirect ==
  AgentDisabledRequest =>
    /\ llmCalls = 0
    /\ steps = 0
    /\ iteration = 0
    /\ sent = <<>>
    /\ dispatchLog = <<>>
    /\ pc \in {"start", "process", "translate", "exec", "done"}
    /\ directCalls <= 1
    /\ outcome = "returned" =>
         /\ result.shape = "agent"
         /\ result.iterations = 1
         /\ result.reasoning =
              << <<"Fallback to direct mode due to ReAct being disabled">> >>
         /\ result.success
         /\ directCalls = 1
         /\ GuardDirect(directResp, allowWrites).ok
         /\ result.sql = <<TranslateDirect(directResp, allowWrites).sql>>

C16_Witness ==
  /\ AgentDisabledRequest
  /\ outcome = "returned"
  /\ directResp = <<Fence, "sql", WS, "SELECT", WS, "*", WS, Fence>>
  /\ result.sql = << <<"SELECT", WS, "*">> >>
  /\ result.iterations = 1


\* C17: every agent-mode result has iterations >= 1, whatever the
\* configured REACT_MAX_ITERATIONS (0, negative and non-numeric included).
C17_IterationsAtLeastOne ==
  (mode = "react" /\ outcome = "returned") => result.iterations >= 1


\* C18: throughout an agent run, and in the result it returns, the trace is
\* append-only: every step extends reasoning, observations and the SQL list
\* at the end, a result carries the trace gathered so far, and nothing is
\* added once a Final Answer has been parsed.
C18_TraceAppendOnly ==
  [][ AgentRun =>
        /\ IsPrefix(reasoning, reasoning')
        /\ IsPrefix(observations, observations')
        /\ IsPrefix(sqlQueries, sqlQueries')
        /\ finalAnswer # <<>> =>
             /\ reasoning' = reasoning
             /\ observations' = observations
             /\ sqlQueries' = sqlQueries
             /\ finalAnswer' = finalAnswer
        /\ result'.shape = "agent" =>
             /\ IsPrefix(reasoning, result'.reasoning)
             /\ IsPrefix(observations, result'.observations)
             /\ IsPrefix(sqlQueries, result'.sql) ]_vars


\* Number of actions dispatched in the iterations before iteration k.
DispatchedBefore(k) ==
  Cardinality({i \in DOMAIN dispatchLog : dispatchLog[i].iter < k})

\* The first n dispatches with their observations, in dispatch order.
DispatchHistory(n) ==
  [i \in 1..n |-> [action |-> dispatchLog[i].action,
                   input |-> dispatchLog[i].input,
                   observation |-> observations[i]]]

NamesSqlQuery(entry) == ToLowerCase(entry.action) = <<"sql-query">>

\* The inputs of the sql-query dispatches of log, in dispatch order.
SqlInputsOf(log) ==
  LET picked == SelectSeq(log, NamesSqlQuery)
  IN  [i \in 1..Len(picked) |-> picked[i].input]

\* C20: the SQL list holds exactly the inputs of the dispatched sql-query
\* actions, one per dispatch and in dispatch order, and nothing for any
\* other action; the returned result carries that list.
C20_SqlListIsSqlQueryInputs ==
  AgentRun =>
    /\ sqlQueries = SqlInputsOf(dispatchLog)
    /\ (pc = "done" /\ outcome = "returned") =>
         result.sql = SqlInputsOf(dispatchLog)

C20_Witness ==
  /\ AgentRun
  /\ pc = "done"
  /\ outcome = "returned"
  /\ Len(dispatchLog) = 2
  /\ dispatchLog[1].action = <<"schema-inspector">>
  /\ dispatchLog[2].action = <<"SQL-Query">>
  /\ result.sql = <<DeleteStmt>>


\* C21: two agent-mode requests interleaved at their model and database
\* suspension points each return the result they would return alone on the
\* same model and database responses.
C21_ConcurrentEqualsSolo ==
  \A p \in Reqs :
    creq[p].pc = "done" =>
      creq[p].result = SoloRun(creq[p].script, 1, NoLocals, cAllowWrites,
                               cMaxIterations)

\* Request 1 has returned a trace with a statement while request 2, which
\* has already recorded a thought, is suspended on its handler.
C21_Witness ==
  /\ creq[1].pc = "done"
  /\ creq[1].result.sql # <<>>
  /\ creq[1].result.reasoning # <<>>
  /\ creq[2].pc = "dispatch"
  /\ clocals[2].reasoning # <<>>
  /\ creq[1].script # creq[2].script


\* The class of an error text by the priority order syntax error, missing
\* relation, missing column, guard violation, unknown.
ClassByPriority(text) ==
  LET has(w) == \E i \in 1..Len(text) : Lower(text[i]) = w IN
    IF has("syntax error") THEN "SYNTAX_ERROR"
    ELSE IF has("relation") /\ has("does not exist") THEN "RELATION_NOT_FOUND"
    ELSE IF has("column") /\ has("does not exist") THEN "COLUMN_NOT_FOUND"
    ELSE IF has("only select statements are allowed") THEN "SAFETY_GUARD"
    ELSE "UNKNOWN_ERROR"

\* The error text an input carries: the error member of a JSON object that
\* has one, the input otherwise.
ErrorTextOf(input) ==
  IF Len(input) >= 3 /\ input[1] = "{error:" /\ input[Len(input)] = "}"
     /\ input[2] # "0"
  THEN SubSeq(input, 2, Len(input) - 1)
  ELSE input

AnalyzerReturned == call.fn = "analyzeError" /\ call.returned

\* C22: the error analyzer classifies every error text by the first
\* matching pattern in the order syntax error, missing relation, missing
\* column, guard violation, unknown, returns exactly one suggestion and a
\* retryable flag; relation ... does not exist is RELATION_NOT_FOUND and
\* retryable.
C22_AnalyzerClassifiesByPriority ==
  AnalyzerReturned =>
    LET obs == call.out.obs IN
      /\ ~call.out.threw
      /\ obs.shape = "analysis"
      /\ obs.errorType = ClassByPriority(ErrorTextOf(call.input))
      /\ Len(obs.suggestions) = 1
      /\ obs.canRetry = (obs.errorType # "UNKNOWN_ERROR")
      /\ obs.errorType = "RELATION_NOT_FOUND" => obs.canRetry


\* The model answered the direct translation with an empty or
\* whitespace-only text.
EmptyDirectResponse == directResp # NoResp /\ Trim(directResp) = <<>>

\* C23: a direct translation whose model response is empty or whitespace
\* only fails with an error for both values of allowWrites, and no empty
\* statement is handed on for execution.
C23_EmptyResponseFails ==
  /\ EmptyDirectResponse => (pc = "done" /\ outcome = "threw" /\ dbLog = <<>>)
  /\ pc = "exec" => sql # <<>>
  /\ \A i \in 1..Len(dbLog) : dbLog[i].by = "controller" => dbLog[i].stmt # <<>>


InspectorReturned == call.fn = "inspectSchema" /\ call.returned

\* The command, without surrounding whitespace and in lower case, has one
\* of the forms tables, describe <table>, sample <table>.
IsValidForm(input) ==
  LET c == ToLowerCase(Trim(input)) IN
    \/ c = <<"tables">>
    \/ Len(c) >= 3 /\ c[1] \in {"describe", "sample"} /\ c[2] = WS

\* C24: the schema inspector accepts exactly the forms tables,
\* describe <table> and sample <table>; for any other input it issues no
\* database query and returns the error that lists the valid forms; it
\* never raises.
C24_InspectorThreeForms ==
  InspectorReturned =>
    /\ ~call.out.threw
    /\ IsValidForm(call.input) <=> call.out.obs.shape # "invalid-command"
    /\ ~IsValidForm(call.input) =>
         /\ call.out.ran = <<>>
         /\ call.out.obs.error =
              "Invalid command. Use: tables, describe <table>, or sample <table>"
         /\ ~call.out.obs.success

C24_Witness ==
  /\ InspectorReturned
  /\ call.input = <<"describe", "contacts">>
  /\ call.out.obs.shape = "invalid-command"
  /\ call.out.ran = <<>>


\* The statement has a table identifier interpolated into its text: it is
\* none of the fixed statements of the handler.
IsInterpolated(stmt) == stmt \notin {TablesQuery, DescribeQuery, CheckQuery}

\* The table a sample command names.
SampledTable(input) ==
  LET c == ToLowerCase(Trim(input)) IN Trim(SubSeq(c, 3, Len(c)))

IsSampleCommand(input) ==
  LET c == ToLowerCase(Trim(input)) IN
    Len(c) >= 3 /\ c[1] = "sample" /\ c[2] = WS

\* C25: for sample <table>, a statement with the identifier interpolated
\* is executed only after the catalog lookup, with the identifier as its
\* bound parameter, has returned at least one row; when the lookup returns
\* none, no interpolated statement is issued and a not-found error is
\* returned.
C25_SampleOnlyAfterLookup ==
  InspectorReturned =>
    LET ran == call.out.ran
        params == call.out.params
    IN
      /\ \A i \in 1..Len(ran) :
           IsInterpolated(ran[i]) =>
             /\ IsSampleCommand(call.input)
             /\ i = 2
             /\ ran[i] = SampleQuery(SampledTable(call.input))
             /\ ran[1] = CheckQuery
             /\ params[1] = <<SampledTable(call.input)>>
             /\ call.o1.ok /\ call.o1.rows # <<>>
      /\ (IsSampleCommand(call.input) /\ call.o1.ok /\ call.o1.rows = <<>>) =>
           /\ ran = <<CheckQuery>>
           /\ call.out.obs.shape = "not-found"

C25_Witness ==
  /\ InspectorReturned
  /\ call.input = <<"sample", WS, "contacts">>
  /\ call.o1.ok /\ call.o1.rows # <<>>
  /\ call.out.ran = <<CheckQuery, SampleQuery(<<"contacts">>)>>
  /\ call.out.obs.shape = "sample"


IsBaseTable(row) == row.table_type = "BASE TABLE"

\* C26: the tables command returns exactly the base tables of the catalog;
\* no view is in the result.
C26_TablesListsBaseTablesOnly ==
  (InspectorReturned /\ call.out.obs.shape = "tables") =>
    /\ call.out.obs.tables = SelectSeq(Catalog, IsBaseTable)
    /\ \A i \in 1..Len(call.out.obs.tables) :
         call.out.obs.tables[i].table_name # "recent_activity"


C28_OnePolicyPerRequest ==
  pc = "exec" => tdAllowWrites = allowWrites


\* The sql-query handler rejected stmt with its SELECT-only message.
HandlerRejected(stmt) ==
  \E k \in 1..Len(dispatchLog) :
    /\ k <= Len(observations)
    /\ IsSqlQuery(dispatchLog[k].action)
    /\ dispatchLog[k].input = stmt
    /\ observations[k].shape = "sql-rejected"
    /\ observations[k].error = HandlerGuardMsg

\* C29: in an agent-mode request, for both values of allowWrites, the
\* controller never executes a statement the sql-query handler rejected
\* with Only SELECT queries are allowed.
C29_ControllerSkipsRejected ==
  AgentRun =>
    \A i \in 1..Len(dbLog) :
      dbLog[i].by = "reexec" => ~HandlerRejected(dbLog[i].stmt)


\* The sql-query handler has handed stmt to the database.
HandlerRan(stmt) ==
  \E j \in 1..Len(dbLog) : dbLog[j].by = "handler" /\ dbLog[j].stmt = stmt

\* C30: in an agent-mode request a dispatched sql-query statement that
\* already ran, returning no row or failing, is not executed a second time
\* by the post-processing of the controller.
C30_NoSecondExecution ==
  AgentRun =>
    \A i \in 1..Len(dbLog) :
      dbLog[i].by = "reexec" => ~HandlerRan(dbLog[i].stmt)


\* C31: every result processQuery returns, on the success and on the
\* failure path, has length(sql) <= length(observations) <= iterations.
C31_SqlObservationsIterationsOrdered ==
  \A p \in Reqs :
    creq[p].pc = "done" =>
      /\ Len(creq[p].result.sql) <= Len(creq[p].result.observations)
      /\ Len(creq[p].result.observations) <= creq[p].result.iterations


RECURSIVE SuccessfulSqlRows(_)
\* The data of the first n dispatches that were sql-query actions executed
\* successfully, concatenated in dispatch order.
SuccessfulSqlRows(n) ==
  IF n = 0 THEN <<>>
  ELSE SuccessfulSqlRows(n - 1) \o
         (IF NamesSqlQuery(dispatchLog[n]) /\ observations[n].shape = "sql-rows"
          THEN observations[n].data ELSE <<>>)

\* C32: the rows of the result processQuery returns are exactly the data of
\* the successfully executed sql-query actions, concatenated in dispatch
\* order; no other action contributes a row.
C32_RowsAreSuccessfulSqlData ==
  (AgentRun /\ pc = "post") =>
    result.rows = SuccessfulSqlRows(Len(observations))


\* C33: both guard-rejection messages a sql-query observation can carry,
\* the handler's and the executor's, are classified SAFETY_GUARD by the
\* error analyzer.
C33_GuardMessagesAreSafetyGuard ==
  (AnalyzerReturned /\ call.input \in GuardErrorInputs) =>
    call.out.obs.errorType = "SAFETY_GUARD"


\* The response has a section header, no Final Answer, and not both an
\* Action and an Action Input.
PartialSections(s) ==
  /\ ~NoSection(s)
  /\ ~finalAnswerMatch(s).found
  /\ ~(actionMatch(s).found /\ actionInputMatch(s).found)

\* The reasoning a run has after the response s arrived on the reasoning
\* before: the thought of s when it has one, then the diagnostic.
ThoughtThenDiagnostic(before, s) ==
  (IF thoughtMatch(s).found THEN Append(before, Trim(thoughtMatch(s).text))
   ELSE before) \o <<Diagnostic>>

\* C34: a response without a Final Answer that has a section but not both
\* Action and Action Input ends the run at that iteration as an unparseable
\* one does: its thought is recorded, the diagnostic follows it, no handler
\* is dispatched and the model is not invoked again.
C34_PartialSectionsEndRun ==
  (AgentRun /\ lastResp # NoResp /\ PartialSections(lastResp))
    => /\ pc \in {"post", "done"}
       /\ \E before \in {SubSeq(reasoning, 1, k) : k \in 0..Len(reasoning)} :
            reasoning = ThoughtThenDiagnostic(before, lastResp)
       /\ result.reasoning = reasoning
       /\ result.success
       /\ result.iterations = iteration
       /\ llmCalls = iteration
       /\ pending = NoPending
       /\ Len(dispatchLog) = iteration - 1
       /\ \A i \in 1..Len(dispatchLog) : dispatchLog[i].iter < iteration

\* A thought followed by an Action without Action Input ended the run in
\* its second iteration.
C34_Witness ==
  /\ AgentRun
  /\ outcome = "returned"
  /\ lastResp = Th \o <<HAction, WS, "sql-query">>
  /\ llmCalls = 2
  /\ result.reasoning = << <<"t">>, <<"t">>, Diagnostic >>
  /\ Len(dispatchLog) = 1


\* The fetches issued by calls that did not force a rebuild.
UnforcedFetches == {i \in 1..Len(fetchLog) : ~fetchLog[i].force}

\* C35: the corpus is built once: whatever the interleaving of concurrent
\* suggestTables and suggestForList calls arriving before the corpus is
\* ready, the remote table list is fetched at most once unless a rebuild
\* is forced.
C35_FetchedAtMostOnce == Cardinality(UnforcedFetches) <= 1

\* C35, second part: a failed fetch leaves built as it was.
C35_FailedFetchLeavesBuilt ==
  [][\A p \in Reqs :
       (ocalls[p].pc = "fetching" /\ ocalls'[p].pc = "threw")
         => ots'.built = ots.built]_vars

\* Calls arriving one after the other fetch once: a call that starts after
\* a build completed issues no fetch.
C35_SequentialFetchOnce ==
  [][\A p \in Reqs :
       (ocalls[p].pc = "idle" /\ ocalls'[p].pc # "idle" /\ ots.built
          /\ ocalls'[p].fn # "initCorpus")
         => fetchLog' = fetchLog]_vars


\* How many times the lease was released.
ReleasesOf(lease) ==
  Cardinality({i \in 1..Len(pool.released) : pool.released[i] = lease})

\* The leases of the calls waiting for client.query.
LeasesInQuery == {dcalls[p].lease : p \in {q \in Reqs : dcalls[q].pc = "querying"}}

\* C36: execSelect never leaks a pooled connection: every connection it
\* checks out is released exactly once whether the query succeeds or
\* throws, and a call the executor's SELECT guard rejects checks out no
\* connection.
C36_NoConnectionLeak ==
  /\ pool.held = LeasesInQuery
  /\ \A lease \in 1..pool.leases :
       ReleasesOf(lease) = IF lease \in pool.held THEN 0 ELSE 1
  /\ \A p \in Reqs :
       /\ dcalls[p].pc \in {"returned", "threw"} /\ dcalls[p].lease # 0
            => dcalls[p].lease \notin pool.held /\ ReleasesOf(dcalls[p].lease) = 1
       /\ dcalls[p].pc = "threw" /\ dcalls[p].error = ExecGuardMsg
            => dcalls[p].lease = 0 /\ dcalls[p].connects = 0
  /\ Len(pool.released) + Cardinality(pool.held) = pool.leases

\* A guard rejection never changes the pool.
C36_GuardRejectionLeavesPool ==
  [][\A p \in Reqs :
       (dcalls[p].pc = "idle" /\ dcalls'[p].pc = "threw") => pool' = pool]_vars

\* One call was rejected by the guard with no connection checked out while
\* the other call's query failed and its connection went back to the pool.
C36_Witness ==
  /\ dcalls[1].pc = "threw" /\ dcalls[1].error = ExecGuardMsg
  /\ dcalls[1].lease = 0
  /\ dcalls[2].pc = "threw" /\ dcalls[2].error = DbErrorMsg
  /\ dcalls[2].lease # 0
  /\ ReleasesOf(dcalls[2].lease) = 1
  /\ pool.held = {}

====
